---- MODULE Spec2Model ----
(***************************************************************************)
(* Model of the manager IPC server of pangolin-windows                     *)
(* (package managers: ipc_server.go and updatestate.go).                   *)
(*                                                                         *)
(* One serving goroutine per session (IPCServerListen/ServeConn), the      *)
(* process-wide registry managerServices with its RWMutex, the quit flag   *)
(* haveQuit with its one-slot channel, and notifyAll with one delivery     *)
(* goroutine per registered session.  A step of a goroutine is one access  *)
(* to shared state (a lock operation that can block, a read or a write of  *)
(* a shared variable) together with the local computation around it.       *)
(*                                                                         *)
(* Spec runs the sessions, their requests and the broadcasts; the update   *)
(* scheduler appears in it only as the caller of its one publication.      *)
(* SchedSpec runs checkForUpdates itself, beside sessions that connect and *)
(* the broadcast it starts; FairSchedSpec adds the fairness of goroutines. *)
(* ClientSpec runs the tasks of a client process that call the stub on one *)
(* connection, and the ServeConn at its other end.                         *)
(* CodecSpec encodes one broadcast payload and decodes it at the client.   *)
(* LockSpec is Spec with the fairness of the goroutines and of the locks.  *)
(* OrderSpec is Spec with one publisher whose calls follow one another.    *)
(***************************************************************************)
EXTENDS Integers, Sequences, FiniteSets, TLC

\* ---------------------------------------------------------------- bounds
\* sessions that connect
NumSessions == 2
\* request frames decoded plus broadcasts started, over the whole run
MaxOps == 2

Sessions == 1..NumSessions
\* client tasks that call the stub on one connection
NumCallers == 3
Callers == 1..NumCallers
Broadcasts == 1..MaxOps

\* ------------------------------------------------------- program constants
\* make(chan struct{}, 1)
QuitChanCap == 1

\* UpdateState values (iota)
UpdateStateUnknown == 0
UpdateStateFoundUpdate == 1
UpdateStateUpdatesDisabledUnofficialBuild == 2

\* the *os.File of a session's event pipe, or nil
NilFile == "nil"
OpenFile == "file"

\* method tags read from the request stream
QuitMethodType == "Quit"
UpdateStateMethodType == "UpdateState"
UpdateMethodType == "Update"

\* notification tags
UpdateFoundNotificationType == "UpdateFound"
UpdateProgressNotificationType == "UpdateProgress"
ManagerStoppingNotificationType == "ManagerStopping"

\* errors
NoError == "nil"
ERROR_ACCESS_DENIED == "ERROR_ACCESS_DENIED"
\* an error whose message is empty, and one of the updater with a message
EmptyError == "errors.New()"
DownloadFailed == "download failed"

\* what decoder.Decode(&methodType) can produce: a known tag, a tag the
\* switch does not know, or an error (truncated or corrupted frame, EOF)
UnknownTag == "UnknownTag"
DecodeError == "DecodeError"
TruncatedArg == "TruncatedArg"
MethodFrames == {QuitMethodType, UpdateStateMethodType, UpdateMethodType}

\* holder of a session's eventLock: nobody, the session's serving goroutine,
\* or the delivery goroutine of broadcast b (the number b itself)
Free == 0
Server == -1

VARIABLES
    managerServices,      \* the registry: set of sessions (map keys)
    managerServicesLock,  \* sync.RWMutex guarding it
    haveQuit,             \* uint32 flag
    quitManagersChan,     \* number of signals buffered in the channel
    updateState,          \* process-wide UpdateState
    elevatedToken,        \* per session: 0 = unprivileged
    events,               \* per session: event handle (NilFile once cleared)
    eventLock,            \* per session: holder of the sync.Mutex
    pc,                   \* per session: position of the serving goroutine
    nreq,                 \* frames decoded so far, over all sessions
    req,                  \* per session: the last frame decoded
    resp,                 \* per session: values encoded in answer to req
    quitLog,              \* per session: return values of its Quit calls
    removals,             \* per session: times it left the registry
    relays,               \* progress relay goroutines waiting for an item
    nb,                   \* broadcasts started so far
    bpc,                  \* per broadcast: position of the notifyAll caller
    btype,                \* per broadcast: [type, adminOnly]
    dp,                   \* per broadcast: the progress item it carries
    ranged,               \* per broadcast: the map keys its loop ranged over
    dlv,                  \* per broadcast and session: delivery goroutine position
    writes,               \* per broadcast and session: Write calls on the handle
    spc,                  \* position of the goroutine of checkForUpdates
    noError,              \* its local noError
    didNotify,            \* its local didNotify
    slog,                 \* what it has done so far, in order
    cpc,                  \* per client task: position in its call of the stub
    cmeth,                \* per client task: the method it calls
    rpcMutex,             \* the client task that holds the stub's lock
    wire,                 \* request stream: parts written and not yet read
    back,                 \* response stream: values written and not yet read
    srv,                  \* the peer's ServeConn on this connection
    got,                  \* per client task: the values it has decoded
    codec                 \* a payload on its way through encoder and decoder

vars == <<managerServices, managerServicesLock, haveQuit, quitManagersChan,
          updateState, elevatedToken, events, eventLock, pc, nreq, req, resp,
          quitLog, removals, relays, nb, bpc, btype, dp, ranged, dlv, writes,
          spc, noError, didNotify, slog,
          cpc, cmeth, rpcMutex, wire, back, srv, got, codec>>

\* frames
regVars == <<managerServices, managerServicesLock, removals>>
quitVars == <<haveQuit, quitManagersChan>>
evVars == <<events, eventLock>>
connVars == <<nreq, req, resp, quitLog>>
bcastVars == <<nb, bpc, btype, dp, ranged, dlv, writes, relays>>
schedVars == <<spc, noError, didNotify, slog>>
clientVars == <<cpc, cmeth, rpcMutex, wire, back, srv, got>>

\* ------------------------------------------------------------ sync.RWMutex
\* w: the writer that holds the writer mutex (0 = none); held: it has the
\* lock; readers: holders of the read lock; blocked: readers that arrived
\* while a writer was announced and wait for its Unlock.
RWInit == [w |-> 0, held |-> FALSE, readers |-> {}, blocked |-> {}]

RWCanAnnounce(l) == l.w = 0
RWAnnounce(l, s) == [l EXCEPT !.w = s, !.held = (l.readers = {})]
RWCanAcquire(l, s) == l.w = s /\ ~l.held /\ l.readers = {}
RWAcquire(l) == [l EXCEPT !.held = TRUE]
RWUnlock(l) == [w |-> 0, held |-> FALSE, readers |-> l.blocked, blocked |-> {}]
RWRLock(l, b) == IF l.w = 0 THEN [l EXCEPT !.readers = @ \cup {b}]
                 ELSE [l EXCEPT !.blocked = @ \cup {b}]
\* variant of RWRUnlock: the read lock is never given back
RWRUnlockKeeps(l, b) == l
RWRUnlock(l, b) == [l EXCEPT !.readers = @ \ {b}]

\* --------------------------------------------------------------- Init
\* the peer's ServeConn at decoder.Decode(&methodType)
PeerReading == [pc |-> "tag", caller |-> 0, left |-> 0]

NoBroadcast == [type |-> "none", adminOnly |-> FALSE]

\* a payload: the values one response or one notification is made of, with
\* the fields its kind does not have left at their zero values
Payload(kind, flag, state, activity, done, total, err) ==
    [kind |-> kind, flag |-> flag, state |-> state, activity |-> activity,
     done |-> done, total |-> total, err |-> err]
NoPayload == Payload("none", FALSE, 0, "", 0, 0, NoError)

\* the zero value of updater.DownloadProgress, as far as the relay reads it
NoProgress == [Complete |-> FALSE, Error |-> NoError]

Init ==
    /\ managerServices = {}
    /\ managerServicesLock = RWInit
    /\ haveQuit = 0
    /\ quitManagersChan = 0
    /\ updateState = UpdateStateUnknown
    /\ elevatedToken = [s \in Sessions |-> 0]
    /\ events = [s \in Sessions |-> NilFile]
    /\ eventLock = [s \in Sessions |-> Free]
    /\ pc = [s \in Sessions |-> "idle"]
    /\ nreq = 0
    /\ req = [s \in Sessions |-> "none"]
    /\ resp = [s \in Sessions |-> <<>>]
    /\ quitLog = [s \in Sessions |-> <<>>]
    /\ removals = [s \in Sessions |-> 0]
    /\ relays = 0
    /\ nb = 0
    /\ bpc = [b \in Broadcasts |-> "idle"]
    /\ btype = [b \in Broadcasts |-> NoBroadcast]
    /\ dp = [b \in Broadcasts |-> NoProgress]
    /\ ranged = [b \in Broadcasts |-> {}]
    /\ dlv = [b \in Broadcasts |-> [s \in Sessions |-> "none"]]
    /\ writes = [b \in Broadcasts |-> [s \in Sessions |-> 0]]
    /\ spc = "start"
    /\ noError = TRUE
    /\ didNotify = FALSE
    /\ slog = <<>>
    /\ cpc = [c \in Callers |-> "idle"]
    /\ cmeth = [c \in Callers |-> "none"]
    /\ rpcMutex = 0
    /\ wire = <<>>
    /\ back = <<>>
    /\ srv = PeerReading
    /\ got = [c \in Callers |-> <<>>]
    /\ codec = [stage |-> "idle", sent |-> NoPayload, bytes |-> <<>>,
                rcvd |-> NoPayload]

\* --------------------------------------------- IPCServerListen (goroutine)
\* service := &ManagerService{events: events, elevatedToken: elevatedToken}
\* and go func(); sessions connect in the order of their numbers
IPCServerListen(s) ==
    /\ pc[s] = "idle"
    /\ \A r \in Sessions : r < s => pc[r] # "idle"
    /\ \E tok \in {0, 1} :
        elevatedToken' = [elevatedToken EXCEPT ![s] = tok]
    /\ events' = [events EXCEPT ![s] = OpenFile]
    /\ pc' = [pc EXCEPT ![s] = "regLock"]
    /\ UNCHANGED <<codec, clientVars, schedVars, regVars, quitVars, updateState, eventLock, connVars, bcastVars>>

\* managerServicesLock.Lock(): take the writer mutex and announce the writer;
\* the lock is held at once when no reader is active, else the goroutine
\* waits at `wait`
LockAnnounce(s, at, wait, next) ==
    /\ pc[s] = at
    /\ RWCanAnnounce(managerServicesLock)
    /\ managerServicesLock' = RWAnnounce(managerServicesLock, s)
    /\ pc' = [pc EXCEPT ![s] = IF managerServicesLock'.held THEN next ELSE wait]
    /\ UNCHANGED <<codec, clientVars, schedVars, managerServices, removals, quitVars, updateState,
                   elevatedToken, evVars, connVars, bcastVars>>

\* managerServicesLock.Lock(), second half: the active readers have left
LockAcquire(s, at, next) ==
    /\ pc[s] = at
    /\ RWCanAcquire(managerServicesLock, s)
    /\ managerServicesLock' = RWAcquire(managerServicesLock)
    /\ pc' = [pc EXCEPT ![s] = next]
    /\ UNCHANGED <<codec, clientVars, schedVars, managerServices, removals, quitVars, updateState,
                   elevatedToken, evVars, connVars, bcastVars>>

\* managerServices[service] = true; managerServicesLock.Unlock()
Register(s) ==
    /\ pc[s] = "regInsert"
    /\ managerServices' = managerServices \cup {s}
    /\ managerServicesLock' = RWUnlock(managerServicesLock)
    /\ pc' = [pc EXCEPT ![s] = "read"]
    /\ UNCHANGED <<codec, clientVars, schedVars, removals, quitVars, updateState, elevatedToken, evVars,
                   connVars, bcastVars>>

\* variant of EventLockAcquire: the goroutine goes on without the lock
EventLockSkipped(s, at, next) ==
    /\ pc[s] = at
    /\ pc' = [pc EXCEPT ![s] = next]
    /\ UNCHANGED <<codec, clientVars, schedVars, regVars, quitVars, updateState, elevatedToken, evVars,
                   connVars, bcastVars>>

\* s.eventLock.Lock() by the serving goroutine
EventLockAcquire(s, at, next) ==
    /\ pc[s] = at
    /\ eventLock[s] = Free
    /\ eventLock' = [eventLock EXCEPT ![s] = Server]
    /\ pc' = [pc EXCEPT ![s] = next]
    /\ UNCHANGED <<codec, clientVars, schedVars, regVars, quitVars, updateState, elevatedToken, events,
                   connVars, bcastVars>>

\* variant of ClearEvents: the lock is released with the handle left open
ClearEventsKeepsHandle(s, at, next) ==
    /\ pc[s] = at
    /\ eventLock' = [eventLock EXCEPT ![s] = Free]
    /\ pc' = [pc EXCEPT ![s] = next]
    /\ UNCHANGED <<codec, clientVars, schedVars, regVars, quitVars, updateState,
                   elevatedToken, events, connVars, bcastVars>>

\* s.events = nil; s.eventLock.Unlock()
ClearEvents(s, at, next) ==
    /\ pc[s] = at
    /\ events' = [events EXCEPT ![s] = NilFile]
    /\ eventLock' = [eventLock EXCEPT ![s] = Free]
    /\ pc' = [pc EXCEPT ![s] = next]
    /\ UNCHANGED <<codec, clientVars, schedVars, regVars, quitVars, updateState, elevatedToken, connVars,
                   bcastVars>>

\* variants of MapDelete: one that deletes a key other than s, one that
\* deletes nothing
MapDeleteOther(m, s) == IF m \ {s} = {} THEN m ELSE m \ {CHOOSE x \in m : x # s}
MapDeleteNothing(m, s) == m

\* delete(managerServices, s): the map without the key s
MapDelete(m, s) == m \ {s}

\* delete(managerServices, s); managerServicesLock.Unlock()
DeleteService(s, at, next) ==
    /\ pc[s] = at
    /\ managerServices' = MapDelete(managerServices, s)
    /\ managerServicesLock' = RWUnlock(managerServicesLock)
    /\ removals' = [removals EXCEPT ![s] =
                        IF s \in managerServices /\ s \notin managerServices'
                        THEN @ + 1 ELSE @]
    /\ pc' = [pc EXCEPT ![s] = next]
    /\ UNCHANGED <<codec, clientVars, schedVars, quitVars, updateState, elevatedToken, evVars, connVars,
                   bcastVars>>

ListenStep(s) ==
    \/ IPCServerListen(s)
    \/ LockAnnounce(s, "regLock", "regWait", "regInsert")
    \/ LockAcquire(s, "regWait", "regInsert")
    \/ Register(s)

\* the tail of the goroutine of IPCServerListen, after ServeConn returned
TeardownStep(s) ==
    \/ LockAnnounce(s, "tdLock", "tdWait", "tdEvLock")
    \/ LockAcquire(s, "tdWait", "tdEvLock")
    \/ EventLockAcquire(s, "tdEvLock", "tdClear")
    \/ ClearEvents(s, "tdClear", "tdDelete")
    \/ DeleteService(s, "tdDelete", "exited")

\* -------------------------------------------------- ManagerService.ServeConn
\* err.Error(): the message of an error that is not nil
ErrorMessage(err) ==
    IF err = ERROR_ACCESS_DENIED THEN "Access is denied."
    ELSE IF err = EmptyError THEN ""
    ELSE err

\* errToString: "" for nil, else err.Error()
errToString(err) == IF err = NoError THEN "" ELSE ErrorMessage(err)

\* variant of Respond: nothing is encoded and the loop goes on
RespondNothing(s, vals) ==
    /\ resp' = [resp EXCEPT ![s] = <<>>]
    /\ pc' = [pc EXCEPT ![s] = "read"]

\* variant of Respond: ServeConn reads on after an Encode that failed
RespondIgnoresError(s, vals) ==
    \E n \in 0..Len(vals) :
        /\ resp' = [resp EXCEPT ![s] = SubSeq(vals, 1, n)]
        /\ pc' = [pc EXCEPT ![s] = "read"]

\* encoder.Encode of each value of vals in turn: the first n succeed; when
\* one fails ServeConn returns, else the loop reads the next frame
Respond(s, vals) ==
    \E n \in 0..Len(vals) :
        /\ resp' = [resp EXCEPT ![s] = SubSeq(vals, 1, n)]
        /\ pc' = [pc EXCEPT ![s] = IF n = Len(vals) THEN "read" ELSE "tdLock"]

\* a request is decoded: err := decoder.Decode(&methodType) gives a tag of
\* the switch (and, for Quit, the argument decodes too)
Decoded(s, frame) ==
    /\ pc[s] = "read"
    /\ nreq + nb < MaxOps
    /\ nreq' = nreq + 1
    /\ req' = [req EXCEPT ![s] = frame]

\* what ServeConn does with a frame it cannot serve: return, whatever the
\* kind of failure
Failed(frame) == "return"

\* variant of DecodeFails: a Quit whose argument fails to decode still swaps
\* the quit flag before ServeConn returns
DecodeFailsAfterSwap(s) ==
    /\ pc[s] = "read"
    /\ \E frame \in {DecodeError, UnknownTag, TruncatedArg} :
        /\ req' = [req EXCEPT ![s] = Failed(frame)]
        /\ haveQuit' = IF frame = TruncatedArg
                       THEN 1
                       ELSE haveQuit
    /\ resp' = [resp EXCEPT ![s] = <<>>]
    /\ pc' = [pc EXCEPT ![s] = "tdLock"]
    /\ UNCHANGED <<codec, clientVars, schedVars, regVars, quitManagersChan,
                   updateState, elevatedToken, evVars, nreq, quitLog, bcastVars>>

\* a decode error (truncated or corrupted frame, end of stream), a tag the
\* switch does not know, or a Quit tag whose argument fails to decode:
\* ServeConn returns
DecodeFails(s) ==
    /\ pc[s] = "read"
    /\ \E frame \in {DecodeError, UnknownTag, TruncatedArg} :
        req' = [req EXCEPT ![s] = Failed(frame)]
    /\ resp' = [resp EXCEPT ![s] = <<>>]
    /\ pc' = [pc EXCEPT ![s] = "tdLock"]
    /\ UNCHANGED <<codec, clientVars, schedVars, regVars, quitVars, updateState, elevatedToken, evVars,
                   nreq, quitLog, bcastVars>>

\* ------------------------------------------------------ ManagerService.Quit
\* variants of IsUnprivileged: the check is missing, or inverted
IsUnprivilegedNever(tok) == FALSE
IsUnprivilegedInverted(tok) == tok # 0

\* s.elevatedToken == 0
IsUnprivileged(tok) == tok = 0

\* variants of CompareAndSwapUint32: a plain store that reports success, and
\* a compare that never stores
CASAlwaysSwaps(cur, old, new) == [swapped |-> TRUE, val |-> new]
CASNeverStores(cur, old, new) == [swapped |-> cur = old, val |-> cur]
\* another: a compare that fails stores old
CASFailureStoresOld(cur, old, new) ==
    [swapped |-> cur = old, val |-> IF cur = old THEN new ELSE old]

\* atomic.CompareAndSwapUint32(&addr, old, new) on a flag holding cur
CompareAndSwapUint32(cur, old, new) ==
    IF cur = old THEN [swapped |-> TRUE, val |-> new]
    ELSE [swapped |-> FALSE, val |-> cur]

\* return alreadyQuit, err to ServeConn, which encodes alreadyQuit and then
\* errToString(retErr)
QuitReturn(s, alreadyQuit, err) ==
    /\ quitLog' = [quitLog EXCEPT ![s] =
                      Append(@, [alreadyQuit |-> alreadyQuit, err |-> err])]
    /\ Respond(s, <<alreadyQuit, errToString(err)>>)

\* case QuitMethodType with its argument decoded: the privilege check and
\* the compare-and-swap of Quit
QuitEnter(s) ==
    /\ Decoded(s, QuitMethodType)
    /\ IF IsUnprivileged(elevatedToken[s])
       THEN /\ QuitReturn(s, FALSE, ERROR_ACCESS_DENIED)
            /\ UNCHANGED haveQuit
       ELSE LET c == CompareAndSwapUint32(haveQuit, 0, 1) IN
            /\ haveQuit' = c.val
            /\ IF ~c.swapped
               THEN QuitReturn(s, TRUE, NoError)
               ELSE /\ pc' = [pc EXCEPT ![s] = "quitLock"]
                    /\ resp' = [resp EXCEPT ![s] = <<>>]
                    /\ UNCHANGED quitLog
    /\ UNCHANGED <<codec, clientVars, schedVars, regVars, quitManagersChan, updateState, elevatedToken,
                   evVars, bcastVars>>

\* quitManagersChan <- struct{}{}; return false, nil
\* (the stopTunnelsOnQuit branch before it only logs)
QuitSend(s) ==
    /\ pc[s] = "quitSend"
    /\ quitManagersChan < QuitChanCap
    /\ quitManagersChan' = quitManagersChan + 1
    /\ QuitReturn(s, FALSE, NoError)
    /\ UNCHANGED <<codec, clientVars, schedVars, regVars, haveQuit, updateState, elevatedToken, evVars,
                   nreq, req, bcastVars>>

Quit(s) ==
    \/ QuitEnter(s)
    \/ LockAnnounce(s, "quitLock", "quitWait", "quitEvLock")
    \/ LockAcquire(s, "quitWait", "quitEvLock")
    \/ EventLockAcquire(s, "quitEvLock", "quitClear")
    \/ ClearEvents(s, "quitClear", "quitDelete")
    \/ DeleteService(s, "quitDelete", "quitSend")
    \/ QuitSend(s)

\* variant of UpdateState: a session whose token is zero is told Unknown
UpdateStateNeedsToken(s) ==
    /\ Decoded(s, UpdateStateMethodType)
    /\ Respond(s, <<IF IsUnprivileged(elevatedToken[s])
                    THEN UpdateStateUnknown ELSE updateState>>)
    /\ UNCHANGED <<codec, clientVars, schedVars, regVars, quitVars, updateState, elevatedToken,
                   evVars, quitLog, bcastVars>>

\* case UpdateStateMethodType: updateState := s.UpdateState(), which returns
\* the package variable, and its encoding
UpdateState(s) ==
    /\ Decoded(s, UpdateStateMethodType)
    /\ Respond(s, <<updateState>>)
    /\ UNCHANGED <<codec, clientVars, schedVars, regVars, quitVars, updateState, elevatedToken, evVars,
                   quitLog, bcastVars>>

\* case UpdateMethodType: s.Update() starts the download and the progress
\* relay goroutine for an elevated session; nothing is encoded
Update(s) ==
    /\ Decoded(s, UpdateMethodType)
    /\ relays' = IF IsUnprivileged(elevatedToken[s]) THEN relays ELSE relays + 1
    /\ resp' = [resp EXCEPT ![s] = <<>>]
    /\ UNCHANGED <<codec, clientVars, schedVars, regVars, quitVars, updateState, elevatedToken, evVars, pc,
                   quitLog, nb, bpc, btype, dp, ranged, dlv, writes>>

ServeConn(s) ==
    \/ DecodeFails(s)
    \/ Quit(s)
    \/ UpdateState(s)
    \/ Update(s)

\* ------------------------------------------------------------- notifyAll
\* if len(managerServices) == 0 { return }: read without the lock
NobodyListens(registry) == Cardinality(registry) = 0

\* a caller enters notifyAll(notificationType, adminOnly, ...) and returns
\* at once when the map is empty; otherwise it encodes the notification into
\* a buffer (which cannot fail for these types) and goes on to RLock.
\* Broadcasts are numbered in the order they start.
EnterNotifyAll(b, notificationType, adminOnly) ==
    /\ bpc[b] = "idle"
    /\ b = nb + 1
    /\ nreq + nb < MaxOps
    /\ nb' = b
    /\ btype' = [btype EXCEPT ![b] = [type |-> notificationType,
                                      adminOnly |-> adminOnly]]
    /\ bpc' = [bpc EXCEPT ![b] =
                 IF NobodyListens(managerServices) THEN "done" ELSE "rlock"]

\* the items the progress channel of updater.DownloadVerifyAndExecute can
\* hand to the relay: one more step, the completion, or a failure
ProgressItems ==
    {[Complete |-> FALSE, Error |-> NoError],
     [Complete |-> TRUE, Error |-> NoError],
     [Complete |-> FALSE, Error |-> DownloadFailed]}

\* variant of IsLast: only the completion ends the relay
IsLastCompleteOnly(item) == item.Complete

\* dp.Complete || dp.Error != nil
IsLast(item) == item.Complete \/ item.Error # NoError

\* the relay goroutine of Update() after IPCServerNotifyUpdateProgress(dp):
\* if dp.Complete || dp.Error != nil { return }, else it waits for the next
\* item; r counts the relay goroutines that wait for an item
RelayLoops(r, item) == IF IsLast(item) THEN r ELSE r + 1

\* variant of IPCServerNotifyUpdateFound: the state is sent and not stored
IPCServerNotifyUpdateFoundUnstored(b) ==
    /\ updateState = UpdateStateUnknown
    /\ EnterNotifyAll(b, UpdateFoundNotificationType, FALSE)
    /\ UNCHANGED <<codec, clientVars, schedVars, regVars, quitVars, updateState,
                   elevatedToken, evVars, pc, connVars, dp, ranged, dlv, writes,
                   relays>>

\* checkForUpdates: updateState = ...; IPCServerNotifyUpdateFound(updateState),
\* which happens at most once in the life of the process
IPCServerNotifyUpdateFound(b) ==
    /\ updateState = UpdateStateUnknown
    /\ \E state \in {UpdateStateFoundUpdate,
                     UpdateStateUpdatesDisabledUnofficialBuild} :
        updateState' = state
    /\ EnterNotifyAll(b, UpdateFoundNotificationType, FALSE)
    /\ UNCHANGED <<codec, clientVars, schedVars, regVars, quitVars, elevatedToken, evVars, pc, connVars,
                   dp, ranged, dlv, writes, relays>>

\* the relay goroutine of Update(): dp := <-progress;
\* IPCServerNotifyUpdateProgress(dp)
IPCServerNotifyUpdateProgress(b) ==
    /\ relays > 0
    /\ EnterNotifyAll(b, UpdateProgressNotificationType, TRUE)
    /\ \E item \in ProgressItems : dp' = [dp EXCEPT ![b] = item]
    /\ relays' = IF bpc'[b] = "done" THEN RelayLoops(relays - 1, dp'[b])
                  ELSE relays - 1
    /\ UNCHANGED <<codec, clientVars, schedVars, regVars, quitVars, updateState, elevatedToken, evVars, pc,
                   connVars, ranged, dlv, writes>>

\* IPCServerNotifyManagerStopping (its caller is the service's main loop);
\* the 200ms sleep after notifyAll changes no state
IPCServerNotifyManagerStopping(b) ==
    /\ EnterNotifyAll(b, ManagerStoppingNotificationType, FALSE)
    /\ UNCHANGED <<codec, clientVars, schedVars, regVars, quitVars, updateState, elevatedToken, evVars, pc,
                   connVars, dp, ranged, dlv, writes, relays>>

\* managerServicesLock.RLock(): granted at once, or queued behind a writer
NotifyRLock(b) ==
    /\ bpc[b] = "rlock"
    /\ managerServicesLock' = RWRLock(managerServicesLock, b)
    /\ bpc' = [bpc EXCEPT ![b] =
                 IF b \in managerServicesLock'.readers THEN "range" ELSE "rwait"]
    /\ UNCHANGED <<codec, clientVars, schedVars, managerServices, removals, quitVars, updateState,
                   elevatedToken, evVars, pc, connVars, nb, btype, dp, ranged, dlv,
                   writes, relays>>

\* the queued RLock returns after the writer's Unlock
NotifyRLockGranted(b) ==
    /\ bpc[b] = "rwait"
    /\ b \in managerServicesLock.readers
    /\ bpc' = [bpc EXCEPT ![b] = "range"]
    /\ UNCHANGED <<codec, clientVars, schedVars, regVars, quitVars, updateState, elevatedToken, evVars, pc,
                   connVars, nb, btype, dp, ranged, dlv, writes, relays>>

\* variant of Skips: no session is skipped
SkipsNobody(tok, adminOnly) == FALSE
\* another: a session without an elevated token is skipped by every broadcast
SkipsUnprivileged(tok, adminOnly) == tok = 0

\* if m.elevatedToken == 0 && adminOnly { continue }
Skips(tok, adminOnly) == tok = 0 /\ adminOnly

\* variant of Recipients: the loop stops after its first delivery
RecipientsFirstOnly(registry, adminOnly) ==
    LET all == {m \in registry : ~(elevatedToken[m] = 0 /\ adminOnly)} IN
    IF all = {} THEN {} ELSE {CHOOSE m \in all : TRUE}

\* the sessions the loop starts a delivery goroutine for
Recipients(registry, adminOnly) ==
    {m \in registry : ~Skips(elevatedToken[m], adminOnly)}

\* for m := range managerServices { ... go func(m) }, then
\* managerServicesLock.RUnlock() and the return to the caller
NotifyRange(b) ==
    /\ bpc[b] = "range"
    /\ ranged' = [ranged EXCEPT ![b] = managerServices]
    /\ dlv' = [dlv EXCEPT ![b] =
                 [m \in Sessions |->
                    IF m \in Recipients(managerServices, btype[b].adminOnly)
                    THEN "lock" ELSE @[m]]]
    /\ managerServicesLock' = RWRUnlock(managerServicesLock, b)
    /\ bpc' = [bpc EXCEPT ![b] = "done"]
    /\ relays' = IF btype[b].type = UpdateProgressNotificationType
                  THEN RelayLoops(relays, dp[b]) ELSE relays
    /\ UNCHANGED <<codec, clientVars, schedVars, managerServices, removals, quitVars, updateState,
                   elevatedToken, evVars, pc, connVars, nb, btype, dp, writes>>

\* variant of HandleOpen: the handle is not looked at
HandleOpenAlways(ev) == TRUE

\* m.events != nil
HandleOpen(ev) == ev # NilFile

\* variant of DeliverLock: the goroutine does not take m.eventLock
DeliverLockNone(b, m) ==
    /\ dlv[b][m] = "lock"
    /\ dlv' = [dlv EXCEPT ![b][m] = IF HandleOpen(events[m]) THEN "write" ELSE "done"]
    /\ UNCHANGED <<codec, clientVars, schedVars, regVars, quitVars, updateState,
                   elevatedToken, evVars, pc, connVars, nb, bpc, btype, dp, ranged,
                   writes, relays>>

\* the delivery goroutine: m.eventLock.Lock(); if m.events != nil it goes on
\* to write, else the deferred Unlock runs at once
DeliverLock(b, m) ==
    /\ dlv[b][m] = "lock"
    /\ eventLock[m] = Free
    /\ IF HandleOpen(events[m])
       THEN /\ eventLock' = [eventLock EXCEPT ![m] = b]
            /\ dlv' = [dlv EXCEPT ![b][m] = "write"]
       ELSE /\ dlv' = [dlv EXCEPT ![b][m] = "done"]
            /\ UNCHANGED eventLock
    /\ UNCHANGED <<codec, clientVars, schedVars, regVars, quitVars, updateState, elevatedToken, events, pc,
                   connVars, nb, bpc, btype, dp, ranged, writes, relays>>

\* m.events.SetWriteDeadline(now + 1s); m.events.Write(buf.Bytes()): the
\* write completes or fails (the peer is gone, or the deadline passes) and
\* its result is discarded; then the deferred m.eventLock.Unlock()
DeliverWrite(b, m) ==
    /\ dlv[b][m] = "write"
    /\ \E ok \in BOOLEAN :
        dlv' = [dlv EXCEPT ![b][m] = IF ok THEN "done" ELSE "failed"]
    /\ writes' = [writes EXCEPT ![b][m] = @ + 1]
    /\ eventLock' = [eventLock EXCEPT ![m] = Free]
    /\ UNCHANGED <<codec, clientVars, schedVars, regVars, quitVars, updateState, elevatedToken, events, pc,
                   connVars, nb, bpc, btype, dp, ranged, relays>>

notifyAll(b) ==
    \/ IPCServerNotifyUpdateFound(b)
    \/ IPCServerNotifyUpdateProgress(b)
    \/ IPCServerNotifyManagerStopping(b)
    \/ NotifyRLock(b)
    \/ NotifyRLockGranted(b)
    \/ NotifyRange(b)
    \/ \E m \in Sessions : DeliverLock(b, m) \/ DeliverWrite(b, m)

Next ==
    \/ \E s \in Sessions : ListenStep(s) \/ ServeConn(s) \/ TeardownStep(s)
    \/ \E b \in Broadcasts : notifyAll(b)

Spec == Init /\ [][Next]_vars

\* ============================================ updatestate.go: the scheduler
\* update checks made in one run of checkForUpdates
MaxChecks == 4

\* ------------------------------------------------------------ time.Duration
\* A Duration is an int64 number of nanoseconds; it is kept here as whole
\* milliseconds and the nanoseconds left over, so that no number passes 2^31.
NsPerMs == 1000000
Duration(ms, ns) == [ms |-> ms, ns |-> ns]
Normal(ms, ns) == Duration(ms + (ns \div NsPerMs), ns % NsPerMs)
Nanosecond == Duration(0, 1)
Millisecond == Duration(1, 0)
Minute == Duration(60000, 0)
Hour == Duration(3600000, 0)
\* a + b, a - b, a * k (k an integer), a <= b on Durations
Plus(a, b) == Normal(a.ms + b.ms, a.ns + b.ns)
Minus(a, b) == Normal(a.ms - b.ms, a.ns - b.ns)
Times(a, k) == Normal(a.ms * k, a.ns * k)
AtMost(a, b) == a.ms < b.ms \/ (a.ms = b.ms /\ a.ns <= b.ns)
\* d / time.Millisecond for d >= 0: the integer quotient
DivMillisecond(d) == d.ms
\* uint32(x) for x >= 0: x mod 2^32, sixteen bits at a time
Uint32(x) == (x % 65536) + 65536 * ((x \div 65536) % 65536)

\* ----------------------------------------------------------- jitterSleep
\* uint32((max-min+1)/time.Millisecond): the argument of fastrandn
JitterSpan(min, max) ==
    Uint32(DivMillisecond(Plus(Minus(max, min), Nanosecond)))

\* fastrandn(n) returns a number in [0, n) (0 when n = 0)
fastrandn(n) == IF n = 0 THEN {0} ELSE 0..(n - 1)
\* the results of fastrandn(n) the model draws: the least and the greatest
Draws(n) == IF n = 0 THEN {0} ELSE {0, n - 1}

\* min + time.Millisecond*time.Duration(r): what time.Sleep is called with
\* when fastrandn returned r
SleepFor(min, r) == Plus(min, Times(Millisecond, r))

\* jitterSleep(min, max): the entries it can add to the log
jitterSleep(min, max) ==
    {<<"sleep", min, max, SleepFor(min, r)>> : r \in Draws(JitterSpan(min, max))}

\* ----------------------------------------------------------- checkForUpdates
\* variant of UpdatesAllowed: the build is never looked at
UpdatesAllowedAlways(isOfficial, devMode) == TRUE

\* isOfficial, or !isOfficial with PANGOLIN_ALLOW_DEV_UPDATES == "1"
UpdatesAllowed(isOfficial, devMode) == isOfficial \/ devMode

\* updateState = state; IPCServerNotifyUpdateFound(updateState): the caller
\* enters notifyAll as the next broadcast
PublishUpdateFound(state) ==
    /\ updateState' = state
    /\ EnterNotifyAll(nb + 1, UpdateFoundNotificationType, FALSE)
    /\ UNCHANGED dp

\* the first lines of checkForUpdates, up to the return of an unofficial
\* build or the test of services.StartedAtBoot()
SchedStart ==
    /\ spc = "start"
    /\ \E isOfficial \in BOOLEAN, env \in BOOLEAN :
        LET devMode == ~isOfficial /\ env IN
        IF ~UpdatesAllowed(isOfficial, devMode)
        THEN /\ PublishUpdateFound(UpdateStateUpdatesDisabledUnofficialBuild)
             /\ slog' = <<<<"build", isOfficial, devMode>>,
                          <<"publish", UpdateStateUpdatesDisabledUnofficialBuild>>>>
             /\ spc' = "disabled"
        ELSE /\ slog' = <<<<"build", isOfficial, devMode>>>>
             /\ spc' = "boot"
             /\ UNCHANGED <<updateState, nb, bpc, btype, dp>>
    /\ UNCHANGED <<codec, clientVars, regVars, quitVars, elevatedToken, evVars, pc, connVars,
                   ranged, dlv, writes, relays, noError, didNotify>>

\* IPCServerNotifyUpdateFound has returned: return
SchedReturn ==
    /\ spc = "disabled"
    /\ bpc[nb] = "done"
    /\ spc' = "returned"
    /\ UNCHANGED <<codec, clientVars, regVars, quitVars, updateState, elevatedToken, evVars, pc,
                   connVars, bcastVars, noError, didNotify, slog>>

\* variant of BootSleeps: the sleep is made whatever StartedAtBoot says
BootSleepsAlways(startedAtBoot) == TRUE

\* if services.StartedAtBoot()
BootSleeps(startedAtBoot) == startedAtBoot

\* if services.StartedAtBoot() { jitterSleep(2min, 5min) }, then
\* noError, didNotify := true, false
SchedBoot ==
    /\ spc = "boot"
    /\ \E startedAtBoot \in BOOLEAN :
        IF BootSleeps(startedAtBoot)
        THEN \E e \in jitterSleep(Times(Minute, 2), Times(Minute, 5)) :
                slog' = slog \o <<<<"boot", startedAtBoot>>, e>>
        ELSE slog' = Append(slog, <<"boot", startedAtBoot>>)
    /\ noError' = TRUE
    /\ didNotify' = FALSE
    /\ spc' = "check"
    /\ UNCHANGED <<codec, clientVars, regVars, quitVars, updateState, elevatedToken, evVars, pc,
                   connVars, bcastVars>>

\* -------------------------------------------------------------- the loop
\* what updater.CheckForUpdate() returns: an error, no update, or an update
CheckOutcomes == {"error", "none", "found"}
Err(outcome) == outcome = "error"
HasUpdate(outcome) == outcome = "found"

\* the checks made so far
Checks == {i \in DOMAIN slog : slog[i][1] = "check"}

\* variant of LoopBranch: didNotify is not looked at
LoopBranchRenotifies(update, err, notified) ==
    IF ~err /\ update THEN "notify"
    ELSE IF err THEN "backoff"
    ELSE "hourly"

\* another: an error backs off also after the notification
LoopBranchAlwaysBacksOff(update, err, notified) ==
    IF ~err /\ update /\ ~notified THEN "notify"
    ELSE IF err THEN "backoff"
    ELSE "hourly"

\* the if / else if / else of the loop body
LoopBranch(update, err, notified) ==
    IF ~err /\ update /\ ~notified THEN "notify"
    ELSE IF err /\ ~notified THEN "backoff"
    ELSE "hourly"

\* variant of LoopsTo: the branch of an error leaves the loop
LoopsToUnlessError(branch) ==
    IF branch = "notify" THEN "notifying"
    ELSE IF branch = "backoff" THEN "returned"
    ELSE "check"

\* for { ... }: where the goroutine is after the branch: inside
\* IPCServerNotifyUpdateFound, or at the next CheckForUpdate
LoopsTo(branch) == IF branch = "notify" THEN "notifying" ELSE "check"

\* variant of Backoff: the short range whatever the flag
BackoffAlwaysShort(flag) == <<Times(Minute, 4), Times(Minute, 6)>>

\* if noError { jitterSleep(4min, 6min) } else { jitterSleep(25min, 30min) }
Backoff(flag) ==
    IF flag THEN <<Times(Minute, 4), Times(Minute, 6)>>
    ELSE <<Times(Minute, 25), Times(Minute, 30)>>

\* jitterSleep(time.Hour-time.Minute*3, time.Hour+time.Minute*3)
Hourly == <<Minus(Hour, Times(Minute, 3)), Plus(Hour, Times(Minute, 3))>>

\* one pass of the loop: update, err := updater.CheckForUpdate() and the
\* branch taken; a branch that sleeps ends when the sleep is over, the
\* branch that notifies goes into IPCServerNotifyUpdateFound
SchedCheck ==
    /\ spc = "check"
    /\ Cardinality(Checks) < MaxChecks
    /\ \E outcome \in CheckOutcomes :
        LET branch == LoopBranch(HasUpdate(outcome), Err(outcome), didNotify)
            checked == Append(slog, <<"check", outcome>>)
        IN
        \/ /\ branch = "notify"
           /\ PublishUpdateFound(UpdateStateFoundUpdate)
           /\ slog' = Append(checked, <<"publish", UpdateStateFoundUpdate>>)
           /\ spc' = LoopsTo(branch)
           /\ UNCHANGED noError
        \/ /\ branch = "backoff"
           /\ \E e \in jitterSleep(Backoff(noError)[1], Backoff(noError)[2]) :
                 slog' = Append(checked, e)
           /\ noError' = FALSE
           /\ spc' = LoopsTo(branch)
           /\ UNCHANGED <<updateState, nb, bpc, btype, dp>>
        \/ /\ branch = "hourly"
           /\ \E e \in jitterSleep(Hourly[1], Hourly[2]) :
                 slog' = Append(checked, e)
           /\ spc' = LoopsTo(branch)
           /\ UNCHANGED <<noError, updateState, nb, bpc, btype, dp>>
    /\ UNCHANGED <<codec, clientVars, regVars, quitVars, elevatedToken, evVars, pc, connVars,
                   ranged, dlv, writes, relays, didNotify>>

\* IPCServerNotifyUpdateFound has returned: didNotify = true, and the loop
\* goes round
SchedNotified ==
    /\ spc = "notifying"
    /\ bpc[nb] = "done"
    /\ didNotify' = TRUE
    /\ spc' = "check"
    /\ UNCHANGED <<codec, clientVars, regVars, quitVars, updateState, elevatedToken, evVars, pc,
                   connVars, bcastVars, noError, slog>>

checkForUpdates ==
    \/ SchedStart
    \/ SchedReturn
    \/ SchedBoot
    \/ SchedCheck
    \/ SchedNotified

\* the rest of a broadcast once its caller is inside notifyAll
Delivery(b) ==
    \/ NotifyRLock(b)
    \/ NotifyRLockGranted(b)
    \/ NotifyRange(b)
    \/ \E m \in Sessions : DeliverLock(b, m) \/ DeliverWrite(b, m)

\* the scheduler with sessions that connect while it runs and the broadcasts
\* it starts
SchedNext ==
    \/ checkForUpdates
    \/ \E s \in Sessions : ListenStep(s)
    \/ \E b \in Broadcasts : Delivery(b)

SchedSpec == Init /\ [][SchedNext]_vars

\* update checks made in one run when what is checked is that the loop
\* goes on
LiveChecks == 3

\* checkForUpdates with that number of checks
checkForUpdatesLive ==
    \/ SchedStart
    \/ SchedReturn
    \/ SchedBoot
    \/ Cardinality(Checks) < LiveChecks /\ SchedCheck
    \/ SchedNotified

FairSchedNext ==
    \/ checkForUpdatesLive
    \/ \E s \in Sessions : ListenStep(s)
    \/ \E b \in Broadcasts : Delivery(b)

\* every goroutine that can take a step takes one in the end: the Go
\* scheduler runs every runnable goroutine, a sleep ends, and a Write with
\* a deadline returns
SchedFairness ==
    /\ WF_vars(checkForUpdatesLive)
    /\ \A s \in Sessions : WF_vars(ListenStep(s))
    /\ \A b \in Broadcasts : WF_vars(Delivery(b))

FairSchedSpec == Init /\ [][FairSchedNext]_vars /\ SchedFairness

\* ============================================================ client stub
\* The stub of the client process (IPCClientQuit, IPCClientUpdateState,
\* IPCClientUpdate, called from the tray's goroutines) and the ServeConn of
\* the manager at the other end of its connection. A request is a method
\* tag and, for Quit, the stopTunnelsOnQuit argument, each encoded on its
\* own; a response is the values ServeConn encodes for the method. Parts and
\* values carry the client task of their call, which the streams themselves
\* do not.
ipcVars == <<regVars, quitVars, updateState, elevatedToken, evVars, pc, connVars,
             bcastVars, schedVars, codec>>

\* the values ServeConn encodes in answer to a method
ResponseFields(method) ==
    IF method = QuitMethodType THEN 2
    ELSE IF method = UpdateStateMethodType THEN 1 ELSE 0

\* the parts of a request after its tag
HasArgument(method) == method = QuitMethodType

StopTunnelsOnQuit == "stopTunnelsOnQuit"

\* a goroutine of the tray calls IPCClientQuit(true), IPCClientUpdateState()
\* or IPCClientUpdate()
ClientCall(c) ==
    /\ cpc[c] = "idle"
    /\ \E method \in MethodFrames : cmeth' = [cmeth EXCEPT ![c] = method]
    /\ cpc' = [cpc EXCEPT ![c] = "lock"]
    /\ UNCHANGED <<ipcVars, rpcMutex, wire, back, srv, got>>

\* variant of StubLock: the call goes on without the stub's lock
StubLockNone(c) ==
    /\ cpc[c] = "lock"
    /\ cpc' = [cpc EXCEPT ![c] = "tag"]
    /\ UNCHANGED <<ipcVars, cmeth, rpcMutex, wire, back, srv, got>>

\* one request at a time per connection: the call waits until no other call
\* is between its first send and its last decode
StubLock(c) ==
    /\ cpc[c] = "lock"
    /\ rpcMutex = 0
    /\ rpcMutex' = c
    /\ cpc' = [cpc EXCEPT ![c] = "tag"]
    /\ UNCHANGED <<ipcVars, cmeth, wire, back, srv, got>>

\* the stub encodes the method tag
StubSendTag(c) ==
    /\ cpc[c] = "tag"
    /\ wire' = Append(wire, <<c, cmeth[c]>>)
    /\ cpc' = [cpc EXCEPT ![c] = IF HasArgument(cmeth[c]) THEN "arg" ELSE "recv"]
    /\ UNCHANGED <<ipcVars, cmeth, rpcMutex, back, srv, got>>

\* the stub encodes the argument of Quit
StubSendArg(c) ==
    /\ cpc[c] = "arg"
    /\ wire' = Append(wire, <<c, StopTunnelsOnQuit>>)
    /\ cpc' = [cpc EXCEPT ![c] = "recv"]
    /\ UNCHANGED <<ipcVars, cmeth, rpcMutex, back, srv, got>>

\* the stub awaits and decodes the next value of the response
StubDecode(c) ==
    /\ cpc[c] = "recv"
    /\ Len(got[c]) < ResponseFields(cmeth[c])
    /\ back # <<>>
    /\ got' = [got EXCEPT ![c] = Append(@, Head(back))]
    /\ back' = Tail(back)
    /\ UNCHANGED <<ipcVars, cpc, cmeth, rpcMutex, wire, srv>>

\* the response is decoded in full: the stub lets the next call in and
\* returns the result to its caller
StubReturn(c) ==
    /\ cpc[c] = "recv"
    /\ Len(got[c]) = ResponseFields(cmeth[c])
    /\ rpcMutex' = IF rpcMutex = c THEN 0 ELSE rpcMutex
    /\ cpc' = [cpc EXCEPT ![c] = "done"]
    /\ UNCHANGED <<ipcVars, cmeth, wire, back, srv, got>>

ClientStub(c) ==
    \/ ClientCall(c)
    \/ StubLock(c)
    \/ StubSendTag(c)
    \/ StubSendArg(c)
    \/ StubDecode(c)
    \/ StubReturn(c)

\* ServeConn: err := decoder.Decode(&methodType) and the switch; a part that
\* is no method tag makes it return
PeerDecodeTag ==
    /\ srv.pc = "tag"
    /\ wire # <<>>
    /\ LET c == Head(wire)[1]
           part == Head(wire)[2]
       IN srv' = IF part \notin MethodFrames THEN [PeerReading EXCEPT !.pc = "closed"]
                 ELSE IF HasArgument(part)
                      THEN [pc |-> "arg", caller |-> c, left |-> ResponseFields(part)]
                 ELSE IF ResponseFields(part) = 0 THEN PeerReading
                 ELSE [pc |-> "encode", caller |-> c, left |-> ResponseFields(part)]
    /\ wire' = Tail(wire)
    /\ UNCHANGED <<ipcVars, cpc, cmeth, rpcMutex, back, got>>

\* ServeConn: err := decoder.Decode(&stopTunnelsOnQuit); anything but the
\* argument makes it return
PeerDecodeArg ==
    /\ srv.pc = "arg"
    /\ wire # <<>>
    /\ srv' = IF Head(wire)[2] = StopTunnelsOnQuit
              THEN [srv EXCEPT !.pc = "encode"]
              ELSE [PeerReading EXCEPT !.pc = "closed"]
    /\ wire' = Tail(wire)
    /\ UNCHANGED <<ipcVars, cpc, cmeth, rpcMutex, back, got>>

\* ServeConn: one encoder.Encode of the response; after the last it reads
\* the next tag
PeerEncode ==
    /\ srv.pc = "encode"
    /\ back' = Append(back, <<srv.caller, srv.left>>)
    /\ srv' = IF srv.left = 1 THEN PeerReading ELSE [srv EXCEPT !.left = @ - 1]
    /\ UNCHANGED <<ipcVars, cpc, cmeth, rpcMutex, wire, got>>

PeerServeConn ==
    \/ PeerDecodeTag
    \/ PeerDecodeArg
    \/ PeerEncode

ClientNext ==
    \/ \E c \in Callers : ClientStub(c)
    \/ PeerServeConn

ClientSpec == Init /\ [][ClientNext]_vars

\* ============================================================= wire codec
\* What ServeConn and notifyAll hand to their gob encoders, value by value,
\* and what the reader at the other end makes of it.
UpdateStates == {UpdateStateUnknown, UpdateStateFoundUpdate,
                 UpdateStateUpdatesDisabledUnofficialBuild}
ErrorsSent == {NoError, ERROR_ACCESS_DENIED, EmptyError, DownloadFailed}
Activities == {"", "downloading"}
ByteCounts == {0, 1}

\* the responses of Quit and UpdateState and the three notifications
Payloads ==
    {Payload("QuitResponse", a, 0, "", 0, 0, e) : a \in BOOLEAN, e \in ErrorsSent}
    \cup {Payload("UpdateStateResponse", FALSE, s, "", 0, 0, NoError) :
            s \in UpdateStates}
    \cup {Payload(UpdateFoundNotificationType, FALSE, s, "", 0, 0, NoError) :
            s \in UpdateStates}
    \cup {Payload(ManagerStoppingNotificationType, FALSE, 0, "", 0, 0, NoError)}
    \cup {Payload(UpdateProgressNotificationType, c, 0, x[1], x[2], x[3], e) :
            c \in BOOLEAN, x \in Activities \X ByteCounts \X ByteCounts,
            e \in ErrorsSent \ {ERROR_ACCESS_DENIED}}

\* encoder.Encode(v): the type of v and v
Gob(type, v) == <<type, v>>

\* the values encoded for a payload, in order: encoder.Encode(alreadyQuit)
\* and encoder.Encode(errToString(retErr)); encoder.Encode(updateState);
\* notifyAll's encoder.Encode(notificationType) and one Encode per iface of
\* IPCServerNotifyUpdateFound, IPCServerNotifyUpdateProgress and
\* IPCServerNotifyManagerStopping
Encode(p) ==
    IF p.kind = "QuitResponse"
    THEN <<Gob("bool", p.flag), Gob("string", errToString(p.err))>>
    ELSE IF p.kind = "UpdateStateResponse"
    THEN <<Gob("UpdateState", p.state)>>
    ELSE IF p.kind = UpdateFoundNotificationType
    THEN <<Gob("NotificationType", p.kind), Gob("UpdateState", p.state)>>
    ELSE IF p.kind = UpdateProgressNotificationType
    THEN <<Gob("NotificationType", p.kind), Gob("string", p.activity),
           Gob("uint64", p.done), Gob("uint64", p.total),
           Gob("string", errToString(p.err)), Gob("bool", p.flag)>>
    ELSE <<Gob("NotificationType", p.kind)>>

\* the reader's view of an error text: none when it is empty, else an error
\* with that message
ErrorOfString(str) ==
    IF str = "" THEN NoError
    ELSE CHOOSE e \in ErrorsSent \ {NoError} : ErrorMessage(e) = str

\* the reader decodes the values in the order of the kind it expects (the
\* response of its call, or the notification named by the tag)
Decode(kind, bytes) ==
    IF kind = "QuitResponse"
    THEN Payload(kind, bytes[1][2], 0, "", 0, 0, ErrorOfString(bytes[2][2]))
    ELSE IF kind = "UpdateStateResponse"
    THEN Payload(kind, FALSE, bytes[1][2], "", 0, 0, NoError)
    ELSE IF bytes[1][2] = UpdateFoundNotificationType
    THEN Payload(bytes[1][2], FALSE, bytes[2][2], "", 0, 0, NoError)
    ELSE IF bytes[1][2] = UpdateProgressNotificationType
    THEN Payload(bytes[1][2], bytes[6][2], 0, bytes[2][2], bytes[3][2],
                 bytes[4][2], ErrorOfString(bytes[5][2]))
    ELSE Payload(bytes[1][2], FALSE, 0, "", 0, 0, NoError)

\* a response or a notification is about to be sent
CodecChoose ==
    /\ codec.stage = "idle"
    /\ \E p \in Payloads : codec' = [codec EXCEPT !.stage = "chosen", !.sent = p]
    /\ UNCHANGED <<regVars, quitVars, updateState, elevatedToken, evVars, pc,
                   connVars, bcastVars, schedVars, clientVars>>

\* the sender encodes it
CodecEncode ==
    /\ codec.stage = "chosen"
    /\ codec' = [codec EXCEPT !.stage = "encoded", !.bytes = Encode(codec.sent)]
    /\ UNCHANGED <<regVars, quitVars, updateState, elevatedToken, evVars, pc,
                   connVars, bcastVars, schedVars, clientVars>>

\* the reader decodes it
CodecDecode ==
    /\ codec.stage = "encoded"
    /\ codec' = [codec EXCEPT !.stage = "decoded",
                              !.rcvd = Decode(codec.sent.kind, codec.bytes)]
    /\ UNCHANGED <<regVars, quitVars, updateState, elevatedToken, evVars, pc,
                   connVars, bcastVars, schedVars, clientVars>>

CodecNext ==
    \/ CodecChoose
    \/ CodecEncode
    \/ CodecDecode

CodecSpec == Init /\ [][CodecNext]_vars

\* ================================================================= locks
\* The goroutines that take managerServicesLock or an eventLock: sessions
\* that register, quit or meet the end of their stream and tear down, and
\* broadcasts with their delivery goroutines.
LockNext ==
    \/ \E s \in Sessions :
          ListenStep(s) \/ Quit(s) \/ DecodeFails(s) \/ TeardownStep(s)
    \/ \E b \in Broadcasts : IPCServerNotifyManagerStopping(b) \/ Delivery(b)

\* the steps of the serving goroutine of s that are not the arrival of a
\* connection or of a frame
ServingSteps(s) ==
    \/ LockAnnounce(s, "regLock", "regWait", "regInsert")
    \/ LockAcquire(s, "regWait", "regInsert")
    \/ Register(s)
    \/ LockAnnounce(s, "quitLock", "quitWait", "quitEvLock")
    \/ LockAcquire(s, "quitWait", "quitEvLock")
    \/ EventLockAcquire(s, "quitEvLock", "quitClear")
    \/ ClearEvents(s, "quitClear", "quitDelete")
    \/ DeleteService(s, "quitDelete", "quitSend")
    \/ QuitSend(s)
    \/ TeardownStep(s)

\* the steps of the caller of notifyAll once it is inside
CallerSteps(b) == NotifyRLock(b) \/ NotifyRLockGranted(b) \/ NotifyRange(b)

\* every goroutine that can run does run, and a Write returns (with
\* success, or with an error at its deadline)
LockFairness ==
    /\ \A s \in Sessions : WF_vars(ServingSteps(s))
    /\ \A b \in Broadcasts : WF_vars(CallerSteps(b))
    /\ \A b \in Broadcasts, m \in Sessions :
          WF_vars(DeliverLock(b, m)) /\ WF_vars(DeliverWrite(b, m))

LockSpec == Init /\ [][LockNext]_vars /\ LockFairness

\* ========================================================= one publisher
\* A goroutine that calls notifyAll again only after its last call has
\* returned, with sessions that connect and the delivery goroutines.
SeqPublish(b) ==
    /\ b > 1 => bpc[b - 1] = "done"
    /\ IPCServerNotifyUpdateFound(b) \/ IPCServerNotifyManagerStopping(b)

OrderNext ==
    \/ \E s \in Sessions : ListenStep(s)
    \/ \E b \in Broadcasts : SeqPublish(b) \/ Delivery(b)

OrderSpec == Init /\ [][OrderNext]_vars

\* ================================================================ claims
\* positions of a serving goroutine inside an elevated Quit that won the
\* compare-and-swap, and inside the teardown after ServeConn
QuitPcs == {"quitLock", "quitWait", "quitEvLock", "quitClear", "quitDelete",
            "quitSend"}
TeardownPcs == {"tdLock", "tdWait", "tdEvLock", "tdClear", "tdDelete"}

\* the Quit calls that have returned, as <<session, index in its log>>
QuitReturns == {c \in Sessions \X (1..MaxOps) : c[2] \in DOMAIN quitLog[c[1]]}
ReturnOf(c) == quitLog[c[1]][c[2]]
\* those of elevated sessions, by the value of alreadyQuit
FirstQuits == {c \in QuitReturns :
                 elevatedToken[c[1]] # 0 /\ ~ReturnOf(c).alreadyQuit}
LaterQuits == {c \in QuitReturns :
                 elevatedToken[c[1]] # 0 /\ ReturnOf(c).alreadyQuit}
QuitRunning == \E s \in Sessions : pc[s] \in QuitPcs
\* session s has had a Quit return alreadyQuit=false with no error
HasQuit(s) == \E i \in DOMAIN quitLog[s] :
                 ~quitLog[s][i].alreadyQuit /\ quitLog[s][i].err = NoError

\* C1: among the Quit calls of elevated sessions at most one wins the flag,
\* so at most one returns alreadyQuit=false (a call past the flag is on its
\* way to that return); every call that returns alreadyQuit=true has a call
\* that won the flag (returned or still running); and once no Quit is
\* running, if any elevated Quit returned then exactly one returned false.
C1_ExactlyOneFirstQuit ==
    /\ Cardinality(FirstQuits) + Cardinality({s \in Sessions : pc[s] \in QuitPcs}) <= 1
    /\ LaterQuits # {} => (FirstQuits # {} \/ QuitRunning)
    /\ (~QuitRunning /\ FirstQuits \cup LaterQuits # {})
          => Cardinality(FirstQuits) = 1

\* two elevated Quit calls have returned, one false and one true
C1_Witness ==
    /\ Cardinality(FirstQuits) = 1
    /\ Cardinality(LaterQuits) = 1

C3_UnprivilegedQuitDenied ==
    \A s \in Sessions :
        elevatedToken[s] = 0 =>
            /\ \A i \in DOMAIN quitLog[s] :
                  quitLog[s][i] = [alreadyQuit |-> FALSE,
                                   err |-> ERROR_ACCESS_DENIED]
            /\ (req[s] = QuitMethodType /\ pc[s] = "read")
                  => resp[s] = <<FALSE, "Access is denied.">>

\* an unprivileged session was denied, and answered, with the quit flag set
C3_Witness ==
    \E s \in Sessions :
        /\ elevatedToken[s] = 0
        /\ quitLog[s] # <<>>
        /\ Len(resp[s]) = 2
        /\ haveQuit = 1

\* a step in which the serving goroutine of s runs part of a Quit call: the
\* call returns, or it enters or moves on in the part after the flag is won
QuitStepOf(s) ==
    \/ quitLog'[s] # quitLog[s]
    \/ pc[s] = "read" /\ pc'[s] \in QuitPcs
    \/ pc[s] \in QuitPcs /\ pc'[s] # pc[s]

\* C4: a step of a Quit call of a session whose token is zero leaves the
\* quit flag, the registry, every event handle and the channel as they were.
C4_UnprivilegedQuitChangesNothing ==
    [][\A s \in Sessions :
          (elevatedToken[s] = 0 /\ QuitStepOf(s))
             => UNCHANGED <<haveQuit, managerServices, events,
                            quitManagersChan>>]_vars

\* an unprivileged Quit has returned while its session is registered with
\* an open handle and the flag is clear
C4_Witness ==
    \E s \in Sessions :
        /\ elevatedToken[s] = 0
        /\ req[s] = QuitMethodType
        /\ quitLog[s] # <<>>
        /\ s \in managerServices
        /\ events[s] = OpenFile
        /\ haveQuit = 0

\* C5: the channel never holds more than its one slot and no sender ever
\* waits at a full channel; a signal is in it only if an elevated Quit won
\* the flag, never when the flag is clear; and once an elevated Quit has
\* returned false exactly one signal has been sent.
C5_OneSignal ==
    /\ quitManagersChan <= QuitChanCap
    /\ \A s \in Sessions :
          pc[s] = "quitSend" => quitManagersChan < QuitChanCap
    /\ haveQuit = 0 => quitManagersChan = 0
    /\ quitManagersChan > 0 => FirstQuits # {}
    /\ FirstQuits # {} => quitManagersChan = 1
    /\ \A s \in Sessions : elevatedToken[s] = 0 => ~HasQuit(s)

\* the signal was sent once although two elevated Quit calls returned
C5_Witness ==
    /\ quitManagersChan = 1
    /\ LaterQuits # {}
    /\ FirstQuits # {}

\* C6 as stated: when the loop is back at reading, the request it served
\* has had a response written.
C6_EveryRequestAnswered ==
    \A s \in Sessions :
        (pc[s] = "read" /\ req[s] \in MethodFrames) => Len(resp[s]) >= 1

\* C6 amended: when the loop is back at reading, a Quit request has had
\* exactly its two response values written (alreadyQuit and the error
\* text of the call's return) and an UpdateState request exactly one; an
\* Update request has had none.  A response cut short is never followed by
\* another read.
C6_QuitAndQueryAnswered ==
    \A s \in Sessions :
        (pc[s] = "read" /\ req[s] # "none") =>
            /\ req[s] \in MethodFrames
            /\ req[s] = QuitMethodType =>
                  /\ quitLog[s] # <<>>
                  /\ resp[s] = <<quitLog[s][Len(quitLog[s])].alreadyQuit,
                                 errToString(quitLog[s][Len(quitLog[s])].err)>>
            /\ req[s] = UpdateStateMethodType =>
                  /\ Len(resp[s]) = 1
                  /\ resp[s][1] \in {UpdateStateUnknown, UpdateStateFoundUpdate,
                                     UpdateStateUpdatesDisabledUnofficialBuild}
            /\ req[s] = UpdateMethodType => resp[s] = <<>>

\* one session is back at reading after a Quit it answered in full, another
\* after an Update it did not answer
C6_Witness ==
    \E s \in Sessions, r \in Sessions :
        /\ pc[s] = "read" /\ req[s] = QuitMethodType /\ Len(resp[s]) = 2
        /\ pc[r] = "read" /\ req[r] = UpdateMethodType /\ resp[r] = <<>>

\* C7: a broadcast with adminOnly=true has no delivery goroutine for, and
\* makes no write to, a session whose token is zero.
C7_AdminOnlyFilter ==
    \A b \in Broadcasts, m \in Sessions :
        (btype[b].adminOnly /\ elevatedToken[m] = 0)
            => dlv[b][m] = "none" /\ writes[b][m] = 0

\* an adminOnly broadcast ranged over an elevated and an unprivileged
\* session and wrote to the elevated one
C7_Witness ==
    \E b \in Broadcasts, m \in Sessions, u \in Sessions :
        /\ btype[b].adminOnly
        /\ {m, u} \subseteq ranged[b]
        /\ elevatedToken[m] # 0 /\ writes[b][m] = 1
        /\ elevatedToken[u] = 0

\* a session the loop of broadcast b ranged over and did not skip
Eligible(b, m) ==
    m \in ranged[b] /\ ~(elevatedToken[m] = 0 /\ btype[b].adminOnly)

\* C8: every session a broadcast ranged over and did not skip has a delivery
\* goroutine of its own, whatever became of the deliveries to the others;
\* a delivery that has finished for a session whose handle is still open
\* made exactly one Write; no delivery writes twice; and the caller has
\* returned without waiting for any of them.
C8_BroadcastIsolation ==
    \A b \in Broadcasts :
        /\ ranged[b] # {} => bpc[b] = "done"
        /\ \A m \in Sessions :
              /\ writes[b][m] <= 1
              /\ Eligible(b, m) =>
                    /\ dlv[b][m] # "none"
                    /\ (dlv[b][m] \in {"done", "failed"} /\ events[m] = OpenFile)
                          => writes[b][m] = 1

\* a broadcast whose write to one session failed has written to another
C8_Witness ==
    \E b \in Broadcasts, m \in Sessions, x \in Sessions :
        /\ m # x
        /\ dlv[b][x] = "failed"
        /\ dlv[b][m] = "done" /\ writes[b][m] = 1

\* the serving goroutine of w holds managerServicesLock and waits for its
\* eventLock, which a delivery goroutine holds during its Write
StalledWriter(w) ==
    /\ managerServicesLock.w = w /\ managerServicesLock.held
    /\ pc[w] \in {"quitEvLock", "tdEvLock"}
    /\ eventLock[w] \in Broadcasts
    /\ dlv[eventLock[w]][w] = "write"

\* C9 as stated: no caller of notifyAll waits in RLock behind a session
\* whose event-stream write is in flight.
C9_CallerNeverBlocked ==
    \A b \in Broadcasts :
        bpc[b] = "rwait" => ~\E w \in Sessions : StalledWriter(w)

\* C10: a session leaves the registry at most once; a serving goroutine
\* that has exited has left it exactly once and is not in it, also when it
\* had left it in a Quit; and after a frame that cannot be served the
\* goroutine serves no further request.
C10_RemovedExactlyOnce ==
    \A s \in Sessions :
        /\ removals[s] <= 1
        /\ pc[s] = "exited" => removals[s] = 1 /\ s \notin managerServices
        /\ req[s] = "return" => pc[s] \in TeardownPcs \cup {"exited"}

\* a session that quit and then met a frame it could not serve has exited
C10_Witness ==
    \E s \in Sessions :
        /\ pc[s] = "exited"
        /\ HasQuit(s)
        /\ req[s] = "return"
        /\ removals[s] = 1

\* positions of a serving goroutine between its registration and its exit
ServingPcs == {"read"} \cup QuitPcs \cup TeardownPcs

\* C11 as stated, a task counting as started once it has registered: a
\* session is in the registry if and only if its serving goroutine is
\* between its registration and its exit.
C11_RegisteredIffServing ==
    \A s \in Sessions : s \in managerServices <=> pc[s] \in ServingPcs

\* C11 amended: a session is in the registry if and only if its serving
\* goroutine is between its registration and its exit and no Quit of that
\* session has won the flag and deleted it.
C11_RegisteredIffServingAndNotQuit ==
    \A s \in Sessions :
        s \in managerServices <=>
            /\ pc[s] \in ServingPcs
            /\ pc[s] # "quitSend"
            /\ ~HasQuit(s)

\* a session whose Quit has returned is serving and out of the registry,
\* beside a session that is serving and in it
C11_Witness ==
    \E s \in Sessions, r \in Sessions :
        /\ HasQuit(s) /\ pc[s] = "read" /\ s \notin managerServices
        /\ r # s /\ pc[r] = "read" /\ r \in managerServices

\* the step is the serving goroutine of s decoding an UpdateState request
\* and answering it: a request is decoded and the request, the response or
\* the position of s changes (no step of another goroutine changes these,
\* and a query that repeats the one before it with the same answer shows in
\* none of them)
QueryStepOf(s) ==
    /\ pc[s] = "read"
    /\ nreq' = nreq + 1
    /\ req'[s] = UpdateStateMethodType
    /\ req'[s] # req[s] \/ resp'[s] # resp[s] \/ pc'[s] # pc[s]

\* C20: a step that serves an UpdateState request, whatever the token of the
\* session, encodes the value updateState has at that step (or nothing, when
\* the encoding fails and the connection ends) and leaves updateState, the
\* quit flag and its channel, the registry, every event handle and its lock,
\* and every broadcast and delivery as they were.
C20_QueryHasNoEffect ==
    [][\A s \in Sessions : QueryStepOf(s) =>
          /\ UNCHANGED <<updateState, quitVars, managerServices, evVars,
                         bcastVars, elevatedToken, quitLog>>
          /\ \/ resp'[s] = <<updateState>> /\ pc'[s] = "read"
             \/ resp'[s] = <<>> /\ pc'[s] = "tdLock"]_vars

\* a session whose token is zero has been told of the state the scheduler
\* published
C20_Witness ==
    \E s \in Sessions :
        /\ elevatedToken[s] = 0
        /\ pc[s] = "read"
        /\ req[s] = UpdateStateMethodType
        /\ resp[s] = <<updateState>>
        /\ updateState # UpdateStateUnknown

\* ------------------------------------------------- claims on the scheduler
\* k minutes
Minutes(k) == Times(Minute, k)
\* log entry e is a sleep of at least lo and at most hi minutes
Within(e, lo, hi) ==
    /\ e[1] = "sleep"
    /\ AtMost(Minutes(lo), e[4])
    /\ AtMost(e[4], Minutes(hi))
\* the entries of the log of one kind
Entries(kind) == {i \in DOMAIN slog : slog[i][1] = kind}
\* the outcomes of the checks made so far, in order
IsCheck(e) == e[1] = "check"
Outcomes == [i \in DOMAIN SelectSeq(slog, IsCheck) |-> SelectSeq(slog, IsCheck)[i][2]]
\* the log from the first check on
FromFirstCheck ==
    IF Checks = {} THEN <<>>
    ELSE SubSeq(slog, CHOOSE i \in Checks : \A j \in Checks : i <= j, Len(slog))
\* the build is official; the build may check for updates
Official == slog # <<>> /\ slog[1] = <<"build", TRUE, FALSE>>
Allowed == slog # <<>> /\ (slog[1][2] \/ slog[1][3])
\* the publications of UpdateStateFoundUpdate
FoundPublished ==
    {i \in Entries("publish") : slog[i][2] = UpdateStateFoundUpdate}

\* C12: on an official build whose first four checks gave error, error,
\* error, update, the log from the first check on is: the check, a sleep of
\* 4 to 6 minutes, the check, a sleep of 25 to 30 minutes, the check, a sleep
\* of 25 to 30 minutes, the check, the publication of UpdateStateFoundUpdate;
\* and that publication is the only one.
C12_BackoffSequence ==
    (Official /\ Len(Outcomes) >= 4
       /\ SubSeq(Outcomes, 1, 4) = <<"error", "error", "error", "found">>) =>
        LET L == FromFirstCheck IN
        /\ Len(L) >= 8
        /\ L[1] = <<"check", "error">> /\ Within(L[2], 4, 6)
        /\ L[3] = <<"check", "error">> /\ Within(L[4], 25, 30)
        /\ L[5] = <<"check", "error">> /\ Within(L[6], 25, 30)
        /\ L[7] = <<"check", "found">>
        /\ L[8] = <<"publish", UpdateStateFoundUpdate>>
        /\ Cardinality(Entries("publish")) = 1
        /\ updateState = UpdateStateFoundUpdate

\* the four outcomes have happened, the publication has returned and a
\* session has been written the notification
C12_Witness ==
    /\ Official
    /\ Len(Outcomes) >= 4
    /\ SubSeq(Outcomes, 1, 4) = <<"error", "error", "error", "found">>
    /\ didNotify
    /\ \E b \in Broadcasts, m \in Sessions : writes[b][m] = 1

\* C13: on a build that is not official, with no override, the log of the
\* scheduler is the build test and one publication of
\* UpdateStateUpdatesDisabledUnofficialBuild and nothing else (no check, no
\* sleep), updateState has that value, and the goroutine is inside that
\* publication or has returned.
C13_UnofficialLockout ==
    (slog # <<>> /\ slog[1] = <<"build", FALSE, FALSE>>) =>
        /\ slog = <<<<"build", FALSE, FALSE>>,
                    <<"publish", UpdateStateUpdatesDisabledUnofficialBuild>>>>
        /\ updateState = UpdateStateUpdatesDisabledUnofficialBuild
        /\ spc \in {"disabled", "returned"}
        /\ nb = 1
        /\ btype[1].type = UpdateFoundNotificationType

\* the scheduler of an unofficial build has returned after a session was
\* written the notification
C13_Witness ==
    /\ slog # <<>> /\ slog[1] = <<"build", FALSE, FALSE>>
    /\ spc = "returned"
    /\ \E m \in Sessions : writes[1][m] = 1

\* C14 as stated: the publication of UpdateStateFoundUpdate is followed in
\* the log by a sleep of 57 to 63 minutes, with no check between.
C14_SleepAfterPublish ==
    \A i \in FoundPublished :
        i < Len(slog) => Within(slog[i + 1], 57, 63)

\* the last check before entry i of the log (0 when there is none)
CheckBefore(i) ==
    IF \E j \in Checks : j < i
    THEN CHOOSE j \in Checks : j < i /\ \A k \in Checks : k < i => k <= j
    ELSE 0

\* C15 as stated: before any publication, the sleep after a failed check is
\* of 4 to 6 minutes when the check before it did not fail (or there was
\* none), and of 25 to 30 minutes when the check before it failed.
C15_ShortAfterSuccess ==
    \A i \in Checks :
        (slog[i][2] = "error" /\ \A p \in Entries("publish") : i < p) =>
            IF CheckBefore(i) # 0 /\ slog[CheckBefore(i)][2] = "error"
            THEN Within(slog[i + 1], 25, 30)
            ELSE Within(slog[i + 1], 4, 6)

\* C16 as stated: every sleep lasts at least min and at most max, and both
\* min and max are among the durations jitterSleep(min, max) can sleep for;
\* the argument of fastrandn fits in 32 bits.
C16_InclusiveRange ==
    \A i \in Entries("sleep") :
        LET min == slog[i][2]
            max == slog[i][3]
            n == DivMillisecond(Plus(Minus(max, min), Nanosecond))
        IN
        /\ AtMost(min, slog[i][4]) /\ AtMost(slog[i][4], max)
        /\ JitterSpan(min, max) = n
        /\ \E r \in fastrandn(JitterSpan(min, max)) : SleepFor(min, r) = min
        /\ \E r \in fastrandn(JitterSpan(min, max)) : SleepFor(min, r) = max

\* entry i of the log is the sleep made for a start at boot
IsBootSleep(i) ==
    /\ slog[i][1] = "sleep"
    /\ slog[i][2] = Minutes(2)
    /\ slog[i][3] = Minutes(5)

\* C17: on a build that may check for updates, a start at boot is followed
\* by one sleep of 2 to 5 minutes, made before the first check; without a
\* start at boot the first thing the loop does is a check; and no sleep of
\* that range is made anywhere else.
C17_BootSleepOnce ==
    (Allowed /\ Len(slog) >= 2) =>
        /\ slog[2][1] = "boot"
        /\ slog[2][2] => /\ Len(slog) >= 3
                         /\ IsBootSleep(3)
                         /\ Within(slog[3], 2, 5)
        /\ (~slog[2][2] /\ Len(slog) >= 3) => slog[3][1] = "check"
        /\ \A i \in Entries("sleep") : IsBootSleep(i) => (i = 3 /\ slog[2][2])
        /\ \A i \in Checks : i > (IF slog[2][2] THEN 3 ELSE 2)

\* after a start at boot and its sleep the loop has gone round at least
\* twice and has slept again
C17_Witness ==
    /\ Allowed
    /\ Len(slog) >= 2 /\ slog[2] = <<"boot", TRUE>>
    /\ Cardinality(Checks) >= 2
    /\ Cardinality(Entries("sleep")) >= 3

\* C18: on a build that may check for updates, whatever the outcomes so far,
\* a scheduler that has made k checks makes check k+1 in the end (for every
\* k below the number of checks the model allows).
C18_ChecksGoOn ==
    \A k \in 1..(LiveChecks - 1) :
        (Cardinality(Checks) = k) ~> (Cardinality(Checks) = k + 1)

\* a check has been made after an error and another after a check that
\* found an update and the publication of it
C18_Witness ==
    /\ Official
    /\ Len(Outcomes) >= 3
    /\ SubSeq(Outcomes, 1, 2) = <<"error", "found">>
    /\ didNotify

\* C19: UpdateStateFoundUpdate is published at most once in a run of the
\* scheduler, and once updateState is UpdateStateFoundUpdate or
\* UpdateStateUpdatesDisabledUnofficialBuild no step changes it.
C19_PublishedOnceAndSticky ==
    /\ [](Cardinality(FoundPublished) <= 1)
    /\ [][updateState # UpdateStateUnknown => updateState' = updateState]_vars

\* two checks have found an update and one publication has been made
C19_Witness ==
    /\ Cardinality({i \in Checks : slog[i][2] = "found"}) >= 2
    /\ Cardinality(FoundPublished) = 1
    /\ updateState = UpdateStateFoundUpdate

\* ------------------------------------------------ Update and its relay
\* a step in which session s decodes UpdateMethodType, seen by what it
\* changes for s
UpdateStepOf(s) ==
    /\ pc[s] = "read"
    /\ nreq' = nreq + 1
    /\ req'[s] = UpdateMethodType
    /\ req'[s] # req[s] \/ resp'[s] # resp[s]

IsProgress(b) == btype[b].type = UpdateProgressNotificationType

\* C21: an Update request of a session without an elevated token starts no
\* relay and no broadcast, changes neither the registry, the quit state, the
\* event handles nor updateState, encodes nothing and leaves the session
\* reading its connection; and while no session has an elevated token there
\* is no relay and no progress broadcast.
C21_UnprivilegedUpdateIsNoOp ==
    /\ []((\A s \in Sessions : elevatedToken[s] = 0) =>
            (relays = 0 /\ \A b \in Broadcasts : ~IsProgress(b)))
    /\ [][\A s \in Sessions :
            (UpdateStepOf(s) /\ elevatedToken[s] = 0) =>
                /\ UNCHANGED <<bcastVars, regVars, quitVars, evVars,
                               updateState, quitLog>>
                /\ resp'[s] = <<>>
                /\ pc'[s] = "read"]_vars

\* a registered session without an elevated token has sent Update after a
\* denied Quit and is reading its connection, its event handle still open
C21_Witness ==
    \E s \in Sessions :
        /\ elevatedToken[s] = 0
        /\ req[s] = UpdateMethodType
        /\ quitLog[s] # <<>>
        /\ pc[s] = "read"
        /\ s \in managerServices
        /\ events[s] = OpenFile
        /\ relays = 0

\* the relay goroutines that have not returned: those that wait for an item
\* and those inside IPCServerNotifyUpdateProgress
LiveRelays ==
    relays + Cardinality({b \in Broadcasts :
                            IsProgress(b) /\ bpc[b] \notin {"idle", "done"}})

\* C22: a progress broadcast starts only for an item taken by a waiting
\* relay; when IPCServerNotifyUpdateProgress returns, the relay returns if
\* the item has Complete set or an error and waits for the next item
\* otherwise; a relay returns only then; and a relay starts only with an
\* Update request of a session with an elevated token.
C22_RelayUntilLastItem ==
    [][/\ \A b \in Broadcasts :
            (nb' = b /\ nb # b /\ btype'[b].type = UpdateProgressNotificationType)
                => (relays > 0 /\ dp'[b] \in ProgressItems)
       /\ \A b \in Broadcasts :
            (/\ btype'[b].type = UpdateProgressNotificationType
             /\ bpc'[b] = "done" /\ bpc[b] # "done")
                => LiveRelays' =
                     IF dp'[b].Complete \/ dp'[b].Error # NoError
                     THEN LiveRelays - 1 ELSE LiveRelays
       /\ LiveRelays' < LiveRelays =>
            \E b \in Broadcasts :
                /\ btype'[b].type = UpdateProgressNotificationType
                /\ bpc'[b] = "done" /\ bpc[b] # "done"
       /\ LiveRelays' > LiveRelays =>
            /\ LiveRelays' = LiveRelays + 1
            /\ \E s \in Sessions :
                /\ pc[s] = "read" /\ nreq' = nreq + 1
                /\ req'[s] = UpdateMethodType
                /\ elevatedToken[s] # 0]_vars

\* the one relay has broadcast an item that carries an error, the item was
\* written to a session, and no relay is left
C22_Witness ==
    \E b \in Broadcasts, m \in Sessions :
        /\ IsProgress(b)
        /\ bpc[b] = "done"
        /\ dp[b].Error # NoError
        /\ writes[b][m] = 1
        /\ LiveRelays = 0

C24_NoWriteAfterClear ==
    /\ [](\A b \in Broadcasts, m \in Sessions :
            dlv[b][m] = "write" => (events[m] = OpenFile /\ eventLock[m] = b))
    /\ [][\A b \in Broadcasts, m \in Sessions :
            /\ writes'[b][m] # writes[b][m] =>
                  (events[m] = OpenFile /\ events'[m] = OpenFile)
            /\ dlv[b][m] = "write" => events'[m] = events[m]]_vars

\* a delivery goroutine started while the handle was open has run after the
\* handle was set to nil and has ended without a Write
C24_Witness ==
    \E b \in Broadcasts, m \in Sessions :
        /\ m \in ranged[b]
        /\ dlv[b][m] = "done"
        /\ writes[b][m] = 0
        /\ events[m] = NilFile

\* ------------------------------------------------- locks and atomicity
\* C25 as stated: the registry is changed only by the goroutine that holds
\* managerServicesLock for writing, the loop of notifyAll ranges over it
\* holding the lock for reading, and no caller of notifyAll reads its size
\* while a goroutine is between Lock() and Unlock().
C25_RegistryAccessUnderLock ==
    [][/\ managerServices' # managerServices =>
            /\ managerServicesLock.held
            /\ pc[managerServicesLock.w] # pc'[managerServicesLock.w]
       /\ \A b \in Broadcasts :
            (bpc[b] = "range" /\ bpc'[b] = "done") =>
                b \in managerServicesLock.readers
       /\ nb' # nb => ~managerServicesLock.held]_vars

\* the part of C25 that holds: insertion, deletion and the loop
C25_WritesAndRangeUnderLock ==
    [][/\ managerServices' # managerServices =>
            /\ managerServicesLock.held
            /\ pc[managerServicesLock.w] # pc'[managerServicesLock.w]
       /\ \A b \in Broadcasts :
            (bpc[b] = "range" /\ bpc'[b] = "done") =>
                b \in managerServicesLock.readers]_vars

\* C26 as stated: the plain read of updateState in ManagerService.UpdateState
\* and the plain assignment to it in checkForUpdates, neither of which takes
\* a lock or is an atomic operation, are never both the next step of their
\* goroutines (the quit flag is only ever touched by CompareAndSwapUint32).
C26_UpdateStateAccessSynchronised ==
    \A s \in Sessions, b \in Broadcasts :
        ~(ENABLED UpdateState(s) /\ ENABLED IPCServerNotifyUpdateFound(b))

\* C27 as stated: a Quit call never waits for a stream write: no session is
\* at s.eventLock.Lock() inside Quit while a delivery goroutine holds that
\* lock during its Write to the session's event stream.
C27_QuitNeverWaitsForWrite ==
    \A s \in Sessions :
        pc[s] = "quitEvLock" =>
            ~(eventLock[s] \in Broadcasts /\ dlv[eventLock[s]][s] = "write")

\* ------------------------------------------------------ one connection
\* a step in which the serving goroutine of s takes a frame from its
\* request stream
ReadStepOf(s) ==
    /\ pc[s] = "read"
    /\ \/ req'[s] # req[s] \/ resp'[s] # resp[s]
       \/ pc'[s] # pc[s] \/ quitLog'[s] # quitLog[s]

\* the last request of s has its whole response encoded: two values for
\* Quit, one for UpdateState, none for Update
Answered(s) ==
    /\ req[s] = QuitMethodType => (Len(resp[s]) = 2 /\ quitLog[s] # <<>>)
    /\ req[s] = UpdateStateMethodType => Len(resp[s]) = 1

\* C28: the serving goroutine of a session takes a frame only when the
\* response to its previous request is encoded in full; while it is inside
\* a request it takes no frame; and it encodes only at the end of a request.
C28_OneRequestAtATime ==
    [][\A s \in Sessions :
        /\ ReadStepOf(s) => Answered(s)
        /\ pc[s] # "read" => req'[s] = req[s]
        /\ pc[s] \notin {"read", "quitSend"} => resp'[s] = resp[s]]_vars

\* a session has had a Quit answered in full and then an UpdateState
C28_Witness ==
    \E s \in Sessions :
        /\ HasQuit(s)
        /\ req[s] = UpdateStateMethodType
        /\ Len(resp[s]) = 1
        /\ pc[s] = "read"

\* C30: the step in which a Quit of a session with an elevated token
\* returns alreadyQuit=true finds the quit flag set and changes neither the
\* flag, the registry and its lock, any event handle or event lock, nor the
\* quit channel.
C30_LaterQuitHasNoEffect ==
    [][\A s \in Sessions :
        (/\ elevatedToken[s] # 0
         /\ Len(quitLog'[s]) = Len(quitLog[s]) + 1
         /\ quitLog'[s][Len(quitLog'[s])].alreadyQuit) =>
            /\ haveQuit = 1
            /\ quitLog'[s][Len(quitLog'[s])].err = NoError
            /\ UNCHANGED <<regVars, evVars, quitVars>>]_vars

\* a Quit has returned alreadyQuit=true to a session that is still
\* registered, with its event handle open, and reads on
C30_Witness ==
    \E c \in LaterQuits :
        /\ c[1] \in managerServices
        /\ events[c[1]] = OpenFile
        /\ pc[c[1]] = "read"
        /\ haveQuit = 1

\* --------------------------------------------------------- client stub
\* a call that has sent part of its request and has not yet decoded its
\* whole response and returned
Outstanding(c) == cpc[c] \in {"arg", "recv"}

\* C29: at most one call of the stub is outstanding on the connection, and
\* it is the one the stub has let in; the values on the response stream are
\* those of the outstanding call; every value a call decodes is a value of
\* its own response, in order; the argument of a Quit follows its tag at
\* once, so the peer never meets a part it cannot decode; and a request
\* that has a response is unread or unanswered only while its call is the
\* outstanding one.
C29_OneRequestOutstanding ==
    /\ Cardinality({c \in Callers : Outstanding(c)}) <= 1
    /\ \A c \in Callers : Outstanding(c) => rpcMutex = c
    /\ \A i \in DOMAIN back : Outstanding(back[i][1])
    /\ \A c \in Callers : \A i \in DOMAIN got[c] :
          got[c][i] = <<c, ResponseFields(cmeth[c]) + 1 - i>>
    /\ srv.pc # "closed"
    /\ srv.pc # "tag" => Outstanding(srv.caller)
    /\ \A i \in DOMAIN wire :
          ResponseFields(cmeth[wire[i][1]]) > 0 => Outstanding(wire[i][1])

\* a Quit call has decoded the first value of its response while a second
\* task waits to be let in and a third has returned from its call
C29_Witness ==
    \E c \in Callers, d \in Callers, e \in Callers :
        /\ cpc[c] = "recv" /\ cmeth[c] = QuitMethodType /\ Len(got[c]) = 1
        /\ cpc[d] = "lock"
        /\ cpc[e] = "done" /\ cmeth[e] = UpdateStateMethodType

\* ------------------------------------------------------------ wire codec
\* C31 as stated: what is encoded for a payload is encoded for no other
\* payload (else no reader can give the original back), and the reader
\* gets a value equal to the one sent.
C31_RoundTrip ==
    /\ codec.stage \in {"encoded", "decoded"} =>
          \A q \in Payloads : Encode(q) = codec.bytes => q = codec.sent
    /\ codec.stage = "decoded" => codec.rcvd = codec.sent

\* the part of C31 that holds: every payload but those that carry an error
\* with an empty message comes back equal
C31_RoundTripUnlessEmptyError ==
    (codec.stage = "decoded" /\ codec.sent.err # EmptyError) =>
        codec.rcvd = codec.sent

\* ------------------------------------------------- notifications and Quit
\* C32 as stated: once a Quit of session s has returned alreadyQuit=false,
\* no Write is made on the event stream of s.
C32_NoWriteAfterQuitReturnedFalse ==
    [][\A s \in Sessions :
        (\E i \in DOMAIN quitLog[s] : ~quitLog[s][i].alreadyQuit) =>
            \A b \in Broadcasts : writes'[b][s] = writes[b][s]]_vars

\* C32, amended: once a Quit of session s has returned alreadyQuit=false
\* with no error, the handle of s is nil, s is not in the registry, no
\* delivery goroutine is in a Write to s, and no Write is made on the event
\* stream of s, by a broadcast started before the Quit or after it.
C32_NoWriteAfterSuccessfulQuit ==
    /\ [](\A s \in Sessions : HasQuit(s) =>
            /\ events[s] = NilFile
            /\ s \notin managerServices
            /\ \A b \in Broadcasts : dlv[b][s] # "write")
    /\ [][\A s \in Sessions : HasQuit(s) =>
            \A b \in Broadcasts : writes'[b][s] = writes[b][s]]_vars

\* a broadcast ranged over a session before its Quit returned, and the
\* delivery goroutine ran after it and wrote nothing
C32_Witness ==
    \E s \in Sessions, b \in Broadcasts :
        /\ HasQuit(s)
        /\ s \in ranged[b]
        /\ dlv[b][s] = "done"
        /\ writes[b][s] = 0

\* ------------------------------------------------------------ no deadlock
\* C33: with Writes that return, a serving goroutine at
\* managerServicesLock.Lock() gets the lock, one at s.eventLock.Lock() gets
\* it, the caller of notifyAll at RLock() gets the read lock, and a
\* delivery goroutine at m.eventLock.Lock() gets that lock or finds it free
\* and the handle nil.
C33_LocksAreObtained ==
    /\ \A s \in Sessions :
          (pc[s] \in {"regLock", "regWait", "quitLock", "quitWait", "tdLock",
                      "tdWait"})
             ~> (managerServicesLock.w = s /\ managerServicesLock.held)
    /\ \A s \in Sessions :
          (pc[s] \in {"quitEvLock", "tdEvLock"}) ~> (eventLock[s] = Server)
    /\ \A b \in Broadcasts :
          (bpc[b] \in {"rlock", "rwait"}) ~> (bpc[b] = "range")
    /\ \A b \in Broadcasts, m \in Sessions :
          (dlv[b][m] = "lock") ~> (dlv[b][m] \in {"write", "done", "failed"})

\* a serving goroutine holds managerServicesLock and waits for its
\* eventLock, held by a delivery goroutine in Write, while the caller of a
\* second broadcast waits for the read lock behind it
C33_Witness ==
    \E s \in Sessions, b \in Broadcasts :
        /\ StalledWriter(s)
        /\ bpc[b] = "rwait"
        /\ b # eventLock[s]

\* ------------------------------------------------------ order of writes
\* C34 as stated: of two broadcasts issued one after the other by one
\* publisher, the later is never written in full to a session while the
\* delivery goroutine of the earlier still waits to write to it.
C34_WritesInIssueOrder ==
    \A m \in Sessions, b1 \in Broadcasts, b2 \in Broadcasts :
        (b1 < b2 /\ writes[b2][m] >= 1 /\ dlv[b2][m] = "done") =>
            ~(dlv[b1][m] = "lock" /\ events[m] = OpenFile)

\* C35: at most one delivery goroutine at a time is in Write on the event
\* stream of a session, and it holds the session's eventLock from before
\* the Write to after it; a broadcast makes at most one Write per session,
\* of its whole buffer.
C35_OneWriterPerStream ==
    \A m \in Sessions :
        /\ Cardinality({b \in Broadcasts : dlv[b][m] = "write"}) <= 1
        /\ \A b \in Broadcasts :
              /\ dlv[b][m] = "write" => (eventLock[m] = b /\ writes[b][m] = 0)
              /\ writes[b][m] <= 1
              /\ writes[b][m] = 1 => dlv[b][m] \in {"done", "failed"}

\* two broadcasts run at once: one is in Write on a session's stream and
\* the delivery goroutine of the other waits for the lock
C35_Witness ==
    \E m \in Sessions, b1 \in Broadcasts, b2 \in Broadcasts :
        /\ dlv[b1][m] = "write"
        /\ dlv[b2][m] = "lock"

\* ---------------------------------------------- UpdateFound and the query
\* C36: from the moment an UpdateFound broadcast exists updateState is the
\* state it carries: updateState is no longer Unknown, it never changes
\* again, and every UpdateState request answered from then on is answered
\* with it; in particular one made after the notification was written.
C36_FoundThenQueryAgrees ==
    /\ [](\A b \in Broadcasts :
            btype[b].type = UpdateFoundNotificationType =>
                updateState # UpdateStateUnknown)
    /\ [][/\ (\E b \in Broadcasts : btype[b].type = UpdateFoundNotificationType)
               => updateState' = updateState
          /\ \A s \in Sessions :
               (/\ QueryStepOf(s)
                /\ Len(resp'[s]) = 1
                /\ \E b \in Broadcasts : writes[b][s] >= 1
                      /\ btype[b].type = UpdateFoundNotificationType)
                  => (resp'[s][1] = updateState
                      /\ resp'[s][1] # UpdateStateUnknown)]_vars

\* a session was sent UpdateFound and has been told the published state in
\* answer to an UpdateState request
C36_Witness ==
    \E b \in Broadcasts, m \in Sessions :
        /\ btype[b].type = UpdateFoundNotificationType
        /\ writes[b][m] = 1 /\ dlv[b][m] = "done"
        /\ req[m] = UpdateStateMethodType
        /\ resp[m] = <<updateState>>
        /\ updateState = UpdateStateFoundUpdate

\* ------------------------------------------------ who gets which broadcast
\* C37: only UpdateProgress broadcasts are adminOnly; an UpdateProgress
\* broadcast starts no delivery to, and makes no Write to, a session whose
\* token is zero; an UpdateFound or ManagerStopping broadcast starts a
\* delivery goroutine for every session its loop ranged over, whatever the
\* token, and a goroutine that has ended for a session whose handle is open
\* has made its Write.
C37_ProgressToElevatedOthersToAll ==
    \A b \in Broadcasts :
        /\ bpc[b] # "idle" =>
              (btype[b].adminOnly <=> IsProgress(b))
        /\ \A m \in Sessions :
              /\ (IsProgress(b) /\ elevatedToken[m] = 0) =>
                    (dlv[b][m] = "none" /\ writes[b][m] = 0)
              /\ (btype[b].type \in {UpdateFoundNotificationType,
                                     ManagerStoppingNotificationType}
                  /\ m \in ranged[b]) =>
                    /\ dlv[b][m] # "none"
                    /\ (dlv[b][m] \in {"done", "failed"} /\ events[m] = OpenFile)
                          => writes[b][m] = 1

\* an UpdateFound broadcast has been written to a session without an
\* elevated token and to one with
C37_Witness ==
    \E b \in Broadcasts, m \in Sessions, e \in Sessions :
        /\ btype[b].type = UpdateFoundNotificationType
        /\ elevatedToken[m] = 0 /\ writes[b][m] = 1
        /\ elevatedToken[e] # 0 /\ writes[b][e] = 1

\* --------------------------------------------------- after the notification
\* C38: every check made after the publication of UpdateStateFoundUpdate,
\* whatever its outcome, is followed in the log by a sleep drawn from
\* jitterSleep(57 minutes, 63 minutes), and no sleep after the publication
\* is shorter than 57 minutes.
C38_HourlyAfterNotification ==
    \A p \in FoundPublished :
        /\ \A i \in Checks :
              i > p => /\ i < Len(slog)
                       /\ Within(slog[i + 1], 57, 63)
                       /\ slog[i + 1][2] = Minutes(57)
                       /\ slog[i + 1][3] = Minutes(63)
        /\ \A i \in Entries("sleep") : i > p => Within(slog[i], 57, 63)

\* after the publication a check has failed, one has found nothing and one
\* has found the update again
C38_Witness ==
    /\ FoundPublished # {}
    /\ Len(Outcomes) >= 4
    /\ \E k \in 1..(Len(Outcomes) - 3) :
          /\ Outcomes[k] = "found"
          /\ \A j \in 1..(k - 1) : Outcomes[j] # "found"
          /\ {Outcomes[j] : j \in (k + 1)..Len(Outcomes)} =
                {"error", "none", "found"}

\* ------------------------------------------------- a frame that fails
\* C39: the step in which ServeConn meets a frame it cannot decode into a
\* request (a Quit tag with a truncated argument among them) makes it
\* return and changes neither the quit flag, the quit channel, the
\* registry, any event handle nor any Quit result; the teardown that
\* follows changes neither the quit flag, the quit channel, the membership
\* of another session nor another session's handle; and at its end the
\* session is out of the registry.
C39_FailedFrameOnlyEndsSession ==
    /\ [](\A s \in Sessions :
            (pc[s] = "exited" /\ req[s] = Failed(TruncatedArg)) =>
                s \notin managerServices)
    /\ [][\A s \in Sessions :
            /\ (pc[s] = "read" /\ pc'[s] # "read" /\ nreq' = nreq) =>
                  /\ pc'[s] = "tdLock"
                  /\ req'[s] = Failed(TruncatedArg)
                  /\ resp'[s] = <<>>
                  /\ UNCHANGED <<quitVars, regVars, evVars, quitLog>>
            /\ (pc[s] \in TeardownPcs /\ pc'[s] # pc[s]) =>
                  /\ UNCHANGED quitVars
                  /\ managerServices' \ {s} = managerServices \ {s}
                  /\ \A t \in Sessions \ {s} : events'[t] = events[t]]_vars

\* a session with an elevated token has met such a frame and has exited; no
\* Quit has run, and the other session is still registered
C39_Witness ==
    \E s \in Sessions, t \in Sessions :
        /\ elevatedToken[s] # 0
        /\ req[s] = Failed(TruncatedArg)
        /\ pc[s] = "exited"
        /\ haveQuit = 0 /\ quitManagersChan = 0
        /\ t \in managerServices /\ events[t] = OpenFile
====
